---- MODULE Spec2Model ----
(***************************************************************************)
(* Model of the polymorphic_constant! procedural macro (src/src/lib.rs).   *)
(*                                                                         *)
(* A token stream is a sequence of token trees.  A token tree is a record  *)
(* [kind, text, num, stream]:                                              *)
(*   Ident   : text is the identifier                                      *)
(*   Literal : num is the value, text the type suffix (<<>> when untyped)  *)
(*   Punct   : text is the punctuation                                     *)
(*   Group   : text is the opening delimiter, stream the enclosed tokens   *)
(* Strings are sequences of symbols ("nz_u8" is <<"nz_", "u", "8">>), so   *)
(* that string matching and string building are computed, not assumed.     *)
(***************************************************************************)
EXTENDS Integers, Sequences, FiniteSets, TLC

\* Longest declaration list given to one expansion.
MaxDecls == 3

----------------------------------------------------------------------------
(* Token trees (proc_macro2::TokenTree) *)

Ident(s) == [kind |-> "Ident", text |-> s, num |-> 0, stream |-> <<>>]

Literal(v, suffix) == [kind |-> "Literal", text |-> suffix, num |-> v, stream |-> <<>>]

Punct(c) == [kind |-> "Punct", text |-> <<c>>, num |-> 0, stream |-> <<>>]

Group(delim, s) == [kind |-> "Group", text |-> <<delim>>, num |-> 0, stream |-> s]

Kw(w) == Ident(<<w>>)

IsPunct(t, c) == t.kind = "Punct" /\ t.text = <<c>>

IsKw(t, w) == t.kind = "Ident" /\ t.text = <<w>>

RECURSIVE Flatten(_)
\* Iterator::flatten over a sequence of token streams
Flatten(ss) == IF ss = <<>> THEN <<>> ELSE Head(ss) \o Flatten(Tail(ss))

----------------------------------------------------------------------------
(* Type-shorthand resolution: impl Parse for PolymorphicVariant *)

StdNum(name) ==
    << Punct("::"), Kw("std"), Punct("::"), Kw("num"), Punct("::"), Ident(name) >>

\* MatchTag with the row of nz_u16 given the type of the row above it
MatchTagCopiedRow(name) ==
    CASE name = <<"nz_", "i", "8">>    -> <<"nz_wrapper", StdNum(<<"NonZero", "I", "8">>)>>
      [] name = <<"nz_", "i", "16">>   -> <<"nz_wrapper", StdNum(<<"NonZero", "I", "16">>)>>
      [] name = <<"nz_", "i", "32">>   -> <<"nz_wrapper", StdNum(<<"NonZero", "I", "32">>)>>
      [] name = <<"nz_", "i", "64">>   -> <<"nz_wrapper", StdNum(<<"NonZero", "I", "64">>)>>
      [] name = <<"nz_", "i", "128">>  -> <<"nz_wrapper", StdNum(<<"NonZero", "I", "128">>)>>
      [] name = <<"nz_", "i", "size">> -> <<"nz_wrapper", StdNum(<<"NonZero", "I", "size">>)>>
      [] name = <<"nz_", "u", "8">>    -> <<"nz_wrapper", StdNum(<<"NonZero", "U", "8">>)>>
      [] name = <<"nz_", "u", "16">>   -> <<"nz_wrapper", StdNum(<<"NonZero", "U", "8">>)>>
      [] name = <<"nz_", "u", "32">>   -> <<"nz_wrapper", StdNum(<<"NonZero", "U", "32">>)>>
      [] name = <<"nz_", "u", "64">>   -> <<"nz_wrapper", StdNum(<<"NonZero", "U", "64">>)>>
      [] name = <<"nz_", "u", "128">>  -> <<"nz_wrapper", StdNum(<<"NonZero", "U", "128">>)>>
      [] name = <<"nz_", "u", "size">> -> <<"nz_wrapper", StdNum(<<"NonZero", "U", "size">>)>>
      [] OTHER                         -> <<"null_wrapper", <<Ident(name)>> >>

\* The match of `name.to_string().as_str()`: (init_wrapper, token)
MatchTag(name) ==
    CASE name = <<"nz_", "i", "8">>    -> <<"nz_wrapper", StdNum(<<"NonZero", "I", "8">>)>>
      [] name = <<"nz_", "i", "16">>   -> <<"nz_wrapper", StdNum(<<"NonZero", "I", "16">>)>>
      [] name = <<"nz_", "i", "32">>   -> <<"nz_wrapper", StdNum(<<"NonZero", "I", "32">>)>>
      [] name = <<"nz_", "i", "64">>   -> <<"nz_wrapper", StdNum(<<"NonZero", "I", "64">>)>>
      [] name = <<"nz_", "i", "128">>  -> <<"nz_wrapper", StdNum(<<"NonZero", "I", "128">>)>>
      [] name = <<"nz_", "i", "size">> -> <<"nz_wrapper", StdNum(<<"NonZero", "I", "size">>)>>
      [] name = <<"nz_", "u", "8">>    -> <<"nz_wrapper", StdNum(<<"NonZero", "U", "8">>)>>
      [] name = <<"nz_", "u", "16">>   -> <<"nz_wrapper", StdNum(<<"NonZero", "U", "16">>)>>
      [] name = <<"nz_", "u", "32">>   -> <<"nz_wrapper", StdNum(<<"NonZero", "U", "32">>)>>
      [] name = <<"nz_", "u", "64">>   -> <<"nz_wrapper", StdNum(<<"NonZero", "U", "64">>)>>
      [] name = <<"nz_", "u", "128">>  -> <<"nz_wrapper", StdNum(<<"NonZero", "U", "128">>)>>
      [] name = <<"nz_", "u", "size">> -> <<"nz_wrapper", StdNum(<<"NonZero", "U", "size">>)>>
      [] OTHER                         -> <<"null_wrapper", <<Ident(name)>> >>

\* PolymorphicVariant { name, token, init_wrapper }
ParseVariant(name) ==
    [name |-> name, token |-> MatchTag(name)[2], init_wrapper |-> MatchTag(name)[1]]

----------------------------------------------------------------------------
(* Parsing: impl Parse for PolymorphicType / PolymorphicConstant /         *)
(* PolymorphicConstantVec.  Every parser returns [ok, value, next]: next   *)
(* is the cursor after the tokens it consumed.                             *)

At(toks, p) == IF p <= Len(toks) THEN toks[p] ELSE Punct("<eof>")

Keywords == {"const", "static", "pub", "crate", "struct", "impl", "fn", "for", "self", "unsafe", "as"}

\* syn::Ident: an identifier that is not a keyword
IsIdent(t) == t.kind = "Ident" /\ ~(Len(t.text) = 1 /\ t.text[1] \in Keywords)

RECURSIVE ParseOuterAttrs(_, _)
\* Attribute::parse_outer: every leading `#[...]`
ParseOuterAttrs(toks, p) ==
    IF IsPunct(At(toks, p), "#") /\ At(toks, p + 1).kind = "Group" /\ At(toks, p + 1).text = <<"[">>
    THEN ParseOuterAttrs(toks, p + 2)
    ELSE p

\* syn::Visibility: `pub`, `pub(crate)` or nothing; never fails
ParseVisibility(toks, p) ==
    IF IsKw(At(toks, p), "pub")
    THEN IF /\ At(toks, p + 1).kind = "Group"
            /\ At(toks, p + 1).text = <<"(">>
            /\ At(toks, p + 1).stream = <<Kw("crate")>>
         THEN p + 2
         ELSE p + 1
    ELSE p

RECURSIVE ParseMoreVariants(_, _, _)
\* while input.parse::<Token![|]>().is_ok() { variants.push(input.parse()?) }
ParseMoreVariants(toks, p, variants) ==
    IF IsPunct(At(toks, p), "|")
    THEN IF IsIdent(At(toks, p + 1))
         THEN ParseMoreVariants(toks, p + 2, Append(variants, ParseVariant(At(toks, p + 1).text)))
         ELSE [ok |-> FALSE, value |-> variants, next |-> p + 1]
    ELSE [ok |-> TRUE, value |-> variants, next |-> p]

\* impl Parse for PolymorphicType: TYPE | TYPE | TYPE
ParseType(toks, p) ==
    IF IsIdent(At(toks, p))
    THEN ParseMoreVariants(toks, p + 1, <<ParseVariant(At(toks, p).text)>>)
    ELSE [ok |-> FALSE, value |-> <<>>, next |-> p]

RECURSIVE ExprOk(_)
\* syn::Expr restricted to: operand (binop operand)*, an operand being a
\* literal, a path of one identifier or a parenthesized expression
OperandOk(t) ==
    \/ t.kind = "Literal"
    \/ IsIdent(t)
    \/ t.kind = "Group" /\ t.text = <<"(">> /\ ExprOk(t.stream)

BinOps == {"+", "*"}

ExprOk(toks) ==
    /\ Len(toks) % 2 = 1
    /\ \A i \in 1..Len(toks) :
          IF i % 2 = 1 THEN OperandOk(toks[i])
                       ELSE toks[i].kind = "Punct" /\ toks[i].text[1] \in BinOps

Capital(c) == CASE c = "a" -> "A" [] c = "b" -> "B" [] c = "c" -> "C" [] OTHER -> c

\* convert_case: to_case(Case::UpperCamel) on a name of one-letter words
ToUpperCamel(name) ==
    LET words == SelectSeq(name, LAMBDA c : c # "_")
    IN  [i \in 1..Len(words) |-> Capital(words[i])]

\* format_ident!("PolymorphicConstant{}", ...)
StructName(const_name) == <<"PolymorphicConstant">> \o ToUpperCamel(const_name)

NoConstant ==
    [attributes |-> <<>>, visibility |-> <<>>, const_name |-> <<>>,
     struct_name |-> <<>>, types |-> <<>>, init |-> <<>>]

\* impl Parse for PolymorphicConstant, on the tokens of one declaration
ParseConstant(toks) ==
    LET a     == ParseOuterAttrs(toks, 1)
        v     == ParseVisibility(toks, a)
        types == ParseType(toks, v + 3)
        e     == types.next
        init  == SubSeq(toks, e + 1, Len(toks))
    IN  IF /\ IsKw(At(toks, v), "const")
           /\ IsIdent(At(toks, v + 1))
           /\ IsPunct(At(toks, v + 2), ":")
           /\ types.ok
           /\ IsPunct(At(toks, e), "=")
           /\ ExprOk(init)
        THEN [ok |-> TRUE,
              value |-> [attributes  |-> SubSeq(toks, 1, a - 1),
                         visibility  |-> SubSeq(toks, a, v - 1),
                         const_name  |-> toks[v + 1].text,
                         struct_name |-> StructName(toks[v + 1].text),
                         types       |-> types.value,
                         init        |-> init]]
        ELSE [ok |-> FALSE, value |-> NoConstant]

RECURSIVE SplitTerminated(_, _)
\* Punctuated::parse_terminated with Token![;]: the token runs between the
\* separators; nothing follows a trailing separator
SplitTerminated(toks, cur) ==
    IF toks = <<>> THEN (IF cur = <<>> THEN <<>> ELSE <<cur>>)
    ELSE IF IsPunct(Head(toks), ";")
         THEN <<cur>> \o SplitTerminated(Tail(toks), <<>>)
         ELSE SplitTerminated(Tail(toks), Append(cur, Head(toks)))

\* ParseConstantVec dropping the declarations that fail to parse
ParseConstantVecSkipping(toks) ==
    LET parts   == SplitTerminated(toks, <<>>)
        good    == SelectSeq(parts, LAMBDA part : ParseConstant(part).ok)
    IN  [ok |-> TRUE, constants |-> [i \in 1..Len(good) |-> ParseConstant(good[i]).value]]

\* impl Parse for PolymorphicConstantVec
ParseConstantVec(toks) ==
    LET parts   == SplitTerminated(toks, <<>>)
        parsed  == [i \in 1..Len(parts) |-> ParseConstant(parts[i])]
    IN  IF \A i \in 1..Len(parts) : parsed[i].ok
        THEN [ok |-> TRUE,  constants |-> [i \in 1..Len(parts) |-> parsed[i].value]]
        ELSE [ok |-> FALSE, constants |-> <<>>]

----------------------------------------------------------------------------
(* Substitution and code generation: impl PolymorphicConstant *)

\* Insert into a dictionary emptied first
InsertIntoFresh(dictionary, key, value) == [k \in {key} |-> value]

\* HashMap::insert
Insert(dictionary, key, value) ==
    [k \in DOMAIN dictionary \cup {key} |-> IF k = key THEN value ELSE dictionary[k]]

\* init_parser: map every token of the initializer's stream, then flatten
init_parser(init, dictionary) ==
    Flatten([i \in 1..Len(init) |->
                IF init[i].kind = "Ident" /\ init[i].text \in DOMAIN dictionary
                THEN dictionary[init[i].text]
                ELSE <<init[i]>>])

\* quote! { unsafe { (#expr) as #ty } }
null_wrapper(expr, ty) ==
    << Kw("unsafe"), Group("{", <<Group("(", expr), Kw("as")>> \o ty) >>

\* quote! { unsafe { #ty::new_unchecked(#expr) } }
nz_wrapper(expr, ty) ==
    << Kw("unsafe"), Group("{", ty \o <<Punct("::"), Kw("new_unchecked"), Group("(", expr)>>) >>

\* (self.init_wrapper)(expr, self.token.clone())
get_init(variant, expr) ==
    IF variant.init_wrapper = "nz_wrapper"
    THEN nz_wrapper(expr, variant.token)
    ELSE null_wrapper(expr, variant.token)

\* struct #struct_name { #( #member_names: #variant_types, )* }
StructDef(c) ==
    c.attributes \o c.visibility \o
    << Kw("struct"), Ident(c.struct_name),
       Group("{", Flatten([i \in 1..Len(c.types) |->
                    <<Ident(c.types[i].name), Punct(":")>> \o c.types[i].token \o <<Punct(",")>>])) >>

\* impl ::core::convert::Into<#variant_types> for #struct_name { ... }
IntoImpl(c, v) ==
    << Kw("impl"), Punct("::"), Kw("core"), Punct("::"), Kw("convert"), Punct("::"),
       Kw("Into"), Punct("<") >> \o v.token \o
    << Punct(">"), Kw("for"), Ident(c.struct_name),
       Group("{", <<Kw("fn"), Kw("into"), Group("(", <<Kw("self")>>), Punct("->")>> \o v.token \o
                  <<Group("{", <<Kw("self"), Punct("."), Ident(v.name)>>)>>) >>

\* const #const_name: #struct_name = #struct_name { #( #member_names: #variant_inits, )* };
ConstDef(c, init_replaced) ==
    c.visibility \o
    << Kw("const"), Ident(c.const_name), Punct(":"), Ident(c.struct_name), Punct("="),
       Ident(c.struct_name),
       Group("{", Flatten([i \in 1..Len(c.types) |->
                    <<Ident(c.types[i].name), Punct(":")>> \o get_init(c.types[i], init_replaced)
                       \o <<Punct(",")>>])),
       Punct(";") >>

\* The token stream to_tokens returns for one constant
Fragment(c, init_replaced) ==
    StructDef(c) \o Flatten([i \in 1..Len(c.types) |-> IntoImpl(c, c.types[i])])
                 \o ConstDef(c, init_replaced)

\* quote! {(#init)}: the entry to_tokens inserts for a constant
DictEntry(init) == << Group("(", init) >>

\* quote!{ const fn }: the tokens the driver chains in front of the fragments
DriverPrefix == << Kw("const"), Kw("fn") >>

\* parse_macro_input!: what the macro returns when parsing fails
CompileError == << Kw("compile_error"), Punct("!"), Group("{", <<>>) >>

----------------------------------------------------------------------------
(* The inputs of one expansion *)

\* The variant lists: two primitives, a primitive with its non-zero counterpart
TagLists ==
    { << <<"i", "32">>, <<"u", "8">> >>,
      << <<"u", "8">>, <<"nz_", "u", "8">> >> }

Lit(v) == Literal(v, <<>>)

A == Ident(<<"A">>)

B == Ident(<<"B">>)

RECURSIVE TypeToks(_)
TypeToks(tags) ==
    IF tags = <<>> THEN <<>>
    ELSE IF Len(tags) = 1 THEN <<Ident(tags[1])>>
    ELSE <<Ident(tags[1]), Punct("|")>> \o TypeToks(Tail(tags))

DeclToks(kw, name, tags, init) ==
    <<Kw(kw), Ident(name), Punct(":")>> \o TypeToks(tags) \o <<Punct("=")>> \o init

\* Declarations that follow the grammar: literals, sums, references to A
\* and B at top level and inside parentheses, a suffixed literal
WellFormed(tags) ==
    { DeclToks("const", <<"A">>, tags, << Lit(5) >>),
      DeclToks("const", <<"A">>, tags, << Lit(1), Punct("+"), Lit(2) >>),
      DeclToks("const", <<"A">>, tags, << A, Punct("*"), Lit(2) >>),
      DeclToks("const", <<"A">>, tags, << Literal(300, <<"u", "16">>) >>),
      DeclToks("const", <<"B">>, tags, << A, Punct("*"), Lit(2) >>),
      DeclToks("const", <<"B">>, tags, << Group("(", <<A, Punct("+"), Lit(1)>>), Punct("*"), Lit(2) >>),
      DeclToks("const", <<"C">>, tags, << B, Punct("+"), Lit(1) >>) }

\* One declaration for each way the grammar can be missed: no colon, no
\* type, no `=`, no initializer
GrammarErrors(tags) ==
    { <<Kw("const"), A>> \o TypeToks(tags) \o <<Punct("="), Lit(5)>>,
      <<Kw("const"), A, Punct(":"), Punct("="), Lit(5)>>,
      <<Kw("const"), A, Punct(":")>> \o TypeToks(tags) \o <<Lit(5)>>,
      <<Kw("const"), A, Punct(":")>> \o TypeToks(tags) \o <<Punct("=")>> }

\* The declarations of tests-std.rs and tests-2015.rs: `static` for `const`
StaticDecls(tags) ==
    { DeclToks("static", <<"A">>, tags, <<Lit(5)>>),
      <<Kw("pub"), Group("(", <<Kw("crate")>>)>> \o DeclToks("static", <<"A">>, tags, <<Lit(5)>>) }

Decls(tags) == WellFormed(tags) \cup GrammarErrors(tags) \cup StaticDecls(tags)

SeqsUpTo(S, n) == UNION { [1..k -> S] : k \in 0..n }

\* Every declaration is followed by `;`, as in the tests
Terminated(ds) == Flatten([i \in 1..Len(ds) |-> Append(ds[i], Punct(";"))])

----------------------------------------------------------------------------
(* The expansion: pub fn polymorphic_constant *)

VARIABLES
    input,       \* the macro's input token stream
    pc,          \* "start", "fold", "collect", "done" or "error"
    constants,   \* PolymorphicConstantVec.constants still to be mapped
    dictionary,  \* the ConstDic the driver owns
    log,         \* per mapped constant: the constant, the dictionary it was given, its init_replaced
    collected,   \* the inner collect::<TokenStream>(), until it is chained
    output,      \* the token stream the macro returns
    name,        \* the identifier given to PolymorphicVariant::parse
    variant      \* the PolymorphicVariant it returned

vars == <<input, pc, constants, dictionary, log, collected, output, name, variant>>

NoVariant == [name |-> <<>>, token |-> <<>>, init_wrapper |-> "none"]

EmptyDic == [k \in {} |-> <<>>]

Init ==
    /\ \E tags \in TagLists : \E ds \in SeqsUpTo(Decls(tags), MaxDecls) : input = Terminated(ds)
    /\ pc = "start"
    /\ constants = <<>>
    /\ dictionary = EmptyDic
    /\ log = <<>>
    /\ collected = <<>>
    /\ output = <<>>
    /\ name = <<>>
    /\ variant = NoVariant

\* parse_macro_input!(input as PolymorphicConstantVec); HashMap::new()
Parse ==
    /\ pc = "start"
    /\ LET r == ParseConstantVec(input)
       IN  IF r.ok
           THEN /\ constants' = r.constants
                /\ pc' = "fold"
                /\ output' = output
           ELSE /\ constants' = <<>>
                /\ pc' = "error"
                /\ output' = CompileError
    /\ UNCHANGED <<input, dictionary, log, collected, name, variant>>

\* ToTokens with the constant inserted before its initializer is rewritten
ToTokensInsertFirst ==
    /\ pc = "fold"
    /\ constants # <<>>
    /\ LET c             == Head(constants)
           inserted      == Insert(dictionary, c.const_name, DictEntry(c.init))
           init_replaced == init_parser(c.init, inserted)
           tokens        == Fragment(c, init_replaced)
       IN  /\ dictionary' = inserted
           /\ log' = Append(log, [constant |-> c, dictionary |-> inserted,
                                  init_replaced |-> init_replaced])
           /\ collected' = collected \o tokens
    /\ constants' = Tail(constants)
    /\ UNCHANGED <<input, pc, output, name, variant>>

\* One step of constants.into_iter().map(|pc| pc.to_tokens(&mut dictionary)).flatten()
ToTokens ==
    /\ pc = "fold"
    /\ constants # <<>>
    /\ LET c             == Head(constants)
           init_replaced == init_parser(c.init, dictionary)
           tokens        == Fragment(c, init_replaced)
       IN  /\ dictionary' = Insert(dictionary, c.const_name, DictEntry(c.init))
           /\ log' = Append(log, [constant |-> c, dictionary |-> dictionary,
                                  init_replaced |-> init_replaced])
           /\ collected' = collected \o tokens
    /\ constants' = Tail(constants)
    /\ UNCHANGED <<input, pc, output, name, variant>>

\* (quote!{ const fn }).into_iter().chain(...).collect::<TokenStream>().into()
Collect ==
    /\ pc = "fold"
    /\ constants = <<>>
    /\ output' = DriverPrefix \o collected
    /\ collected' = <<>>
    /\ pc' = "done"
    /\ UNCHANGED <<input, constants, dictionary, log, name, variant>>

Next == Parse \/ ToTokens \/ Collect

Spec == Init /\ [][Next]_vars

----------------------------------------------------------------------------
(* The variant parser on its own: one call of PolymorphicVariant::parse *)

Widths == {"8", "16", "32", "64", "128", "size"}

\* Type tags: the non-zero shorthands, primitives, and near misses of both
TypeTags ==
    { <<p, s, w>> : p \in {"nz_", "NZ_", "nz"}, s \in {"i", "u", "f"}, w \in Widths \cup {"256"} }
    \cup { <<s, w>> : s \in {"i", "u", "f"}, w \in Widths \cup {"256"} }

InitVariant ==
    /\ name \in TypeTags
    /\ variant = NoVariant
    /\ input = <<>>
    /\ pc = "start"
    /\ constants = <<>>
    /\ dictionary = EmptyDic
    /\ log = <<>>
    /\ collected = <<>>
    /\ output = <<>>

VariantParse ==
    /\ variant = NoVariant
    /\ variant' = ParseVariant(name)
    /\ UNCHANGED <<input, pc, constants, dictionary, log, collected, output, name>>

SpecVariant == InitVariant /\ [][VariantParse]_vars

----------------------------------------------------------------------------
(* What the compiler makes of an emitted initializer: the checks and the   *)
(* casts the crate documentation (Safety, Warnings) relies on.  A result   *)
(* is [ok, val]: ok is FALSE when compilation fails.                       *)

I32 == <<"i", "32">>

RECURSIVE Pow2(_)
Pow2(n) == IF n = 0 THEN 1 ELSE 2 * Pow2(n - 1)

Bits(ty) == CASE ty[2] = "8" -> 8 [] ty[2] = "16" -> 16 [] ty[2] = "32" -> 32

\* Written so that no intermediate result leaves 32 bits
MaxOf(ty) ==
    IF ty[1] = "i" THEN (Pow2(Bits(ty) - 2) - 1) + Pow2(Bits(ty) - 2)
                   ELSE Pow2(Bits(ty)) - 1

MinOf(ty) == IF ty[1] = "i" THEN (0 - MaxOf(ty)) - 1 ELSE 0

InRange(v, ty) == MinOf(ty) <= v /\ v <= MaxOf(ty)

\* `v as ty` between integer types: the value modulo 2^bits
Cast(v, ty) ==
    IF InRange(v, ty) THEN v
    ELSE LET m == v % Pow2(Bits(ty))
         IN  IF m > MaxOf(ty) THEN m - Pow2(Bits(ty)) ELSE m

Failed == [ok |-> FALSE, val |-> 0]

RECURSIVE SplitAt(_, _, _)
\* The runs of tokens between the top-level occurrences of an operator
SplitAt(toks, c, cur) ==
    IF toks = <<>> THEN <<cur>>
    ELSE IF IsPunct(Head(toks), c)
         THEN <<cur>> \o SplitAt(Tail(toks), c, <<>>)
         ELSE SplitAt(Tail(toks), c, Append(cur, Head(toks)))

RECURSIVE Leaves(_)
\* The literals and identifiers of an expression, groups opened
Leaves(toks) ==
    IF toks = <<>> THEN <<>>
    ELSE IF Head(toks).kind = "Group" THEN Leaves(Head(toks).stream) \o Leaves(Tail(toks))
    ELSE IF Head(toks).kind = "Punct" THEN Leaves(Tail(toks))
    ELSE <<Head(toks)>> \o Leaves(Tail(toks))

Range(f) == { f[i] : i \in DOMAIN f }

SuffixTypes(toks) ==
    { t.text : t \in { l \in Range(Leaves(toks)) : l.kind = "Literal" /\ l.text # <<>> } }

HasIdent(toks) == \E t \in Range(Leaves(toks)) : t.kind = "Ident"

RECURSIVE EvalSum(_, _, _)
RECURSIVE EvalProduct(_, _, _)
\* Constant evaluation in type ty; a literal or a result out of ty's range
\* is an error (overflowing_literals, arithmetic_overflow)
EvalOperand(t, ty) ==
    CASE t.kind = "Literal" -> [ok |-> InRange(t.num, ty), val |-> t.num]
      [] t.kind = "Group"   -> EvalSum(SplitAt(t.stream, "+", <<>>), Len(SplitAt(t.stream, "+", <<>>)), ty)
      [] OTHER              -> Failed

EvalProduct(factors, n, ty) ==
    IF n = 1 THEN EvalOperand(factors[1][1], ty)
    ELSE LET l == EvalProduct(factors, n - 1, ty)
             r == EvalOperand(factors[n][1], ty)
         IN  IF l.ok /\ r.ok /\ InRange(l.val * r.val, ty)
             THEN [ok |-> TRUE, val |-> l.val * r.val]
             ELSE Failed

EvalSum(terms, n, ty) ==
    LET term(i) == EvalProduct(SplitAt(terms[i], "*", <<>>), Len(SplitAt(terms[i], "*", <<>>)), ty)
    IN  IF n = 1 THEN term(1)
        ELSE LET l == EvalSum(terms, n - 1, ty)
                 r == term(n)
             IN  IF l.ok /\ r.ok /\ InRange(l.val + r.val, ty)
                 THEN [ok |-> TRUE, val |-> l.val + r.val]
                 ELSE Failed

Eval(toks, ty) == EvalSum(SplitAt(toks, "+", <<>>), Len(SplitAt(toks, "+", <<>>)), ty)

RECURSIVE Unparen(_)
Unparen(toks) ==
    IF Len(toks) = 1 /\ toks[1].kind = "Group" THEN Unparen(toks[1].stream) ELSE toks

\* (expr) as ty.  An unsuffixed literal that is the whole operand takes the
\* target type.  Otherwise the operand is typed on its own: by the suffix its
\* literals carry, by i32 when none carries one; then its value is cast.
HostCast(expr, ty) ==
    LET e     == Unparen(expr)
        types == SuffixTypes(e)
        own   == IF types = {} THEN I32 ELSE CHOOSE t \in types : TRUE
        r     == Eval(e, own)
    IN  IF Len(e) = 1 /\ e[1].kind = "Literal" /\ e[1].text = <<>>
        THEN [ok |-> InRange(e[1].num, ty), val |-> e[1].num]
        ELSE IF HasIdent(e) \/ Cardinality(types) > 1 \/ ~r.ok
        THEN Failed
        ELSE [ok |-> TRUE, val |-> Cast(r.val, ty)]

\* NonZeroT::new_unchecked(expr) in a constant: the argument has type T, and
\* a constant holding zero is rejected
HostNonZero(expr, ty) ==
    LET r == Eval(expr, ty)
    IN  IF HasIdent(expr) \/ ~(SuffixTypes(expr) \subseteq {ty}) \/ ~r.ok \/ r.val = 0
        THEN Failed
        ELSE r

\* The primitive type a resolved variant type stores
PrimOf(token) ==
    LET id == token[Len(token)].text
    IN  IF id[1] = "NonZero"
        THEN << (IF id[2] = "I" THEN "i" ELSE "u"), id[3] >>
        ELSE id

\* The value of one emitted `unsafe { ... }` initializer
HostInit(tokens) ==
    LET body == tokens[2].stream
    IN  IF body[1].kind = "Group"
        THEN HostCast(body[1].stream, PrimOf(SubSeq(body, 3, Len(body))))
        ELSE HostNonZero(body[Len(body)].stream, PrimOf(SubSeq(body, 1, Len(body) - 3)))

----------------------------------------------------------------------------
(* Properties *)

\* The names declared before the i-th mapped constant
EarlierNames(i) == { log[j].constant.const_name : j \in 1..(i - 1) }

\* The names declared after the i-th mapped constant
LaterNames(i) ==
    { log[j].constant.const_name : j \in (i + 1)..Len(log) }
    \cup { constants[j].const_name : j \in 1..Len(constants) }

\* The last declaration of a name before position i
LastBefore(i, n) ==
    CHOOSE j \in 1..(i - 1) :
        /\ log[j].constant.const_name = n
        /\ \A k \in (j + 1)..(i - 1) : log[k].constant.const_name # n

IsRef(t, names) == t.kind = "Ident" /\ t.text \in names

\* No name is declared twice
DistinctNames ==
    \A i, j \in DOMAIN log : log[i].constant.const_name = log[j].constant.const_name => i = j

\* The i-th mapped constant kept the p-th token of its initializer
Kept(i, p) ==
    /\ Len(log[i].init_replaced) = Len(log[i].constant.init)
    /\ log[i].init_replaced[p] = log[i].constant.init[p]

RECURSIVE DeepSubst(_, _)
\* Substitution at every nesting depth: identifiers that are keys become the
\* stored tokens, groups keep their delimiter, everything else is kept
DeepSubst(toks, dic) ==
    Flatten([p \in 1..Len(toks) |->
                IF IsRef(toks[p], DOMAIN dic) THEN dic[toks[p].text]
                ELSE IF toks[p].kind = "Group"
                     THEN << [toks[p] EXCEPT !.stream = DeepSubst(toks[p].stream, dic)] >>
                     ELSE << toks[p] >>])

\* C1: the rewritten initializer of every mapped constant is its initializer
\* with every identifier that is a dictionary key, at any nesting depth,
\* replaced by the stored tokens, all other tokens and the grouping kept.
C1_SubstitutionAtAnyDepth ==
    \A i \in DOMAIN log :
        log[i].init_replaced = DeepSubst(log[i].constant.init, log[i].dictionary)

RECURSIVE TransitiveSubst(_, _)
\* The initializer of the i-th constant with every reference to an earlier
\* constant replaced by that constant's parenthesized initializer, the
\* references of the inserted initializer resolved in the same way
TransitiveSubst(toks, i) ==
    Flatten([p \in 1..Len(toks) |->
                IF IsRef(toks[p], EarlierNames(i))
                THEN LET j == LastBefore(i, toks[p].text)
                     IN  << Group("(", TransitiveSubst(log[j].constant.init, j)) >>
                ELSE << toks[p] >>])

\* C9: in a list of distinctly named constants, in the rewritten initializer
\* of every mapped constant each reference
\* to an earlier constant is replaced by that constant's parenthesized
\* initializer with its own references to earlier constants resolved too, so
\* that no identifier naming a previously declared constant is left in it.
C9_TransitiveResolved ==
    DistinctNames =>
        \A i \in DOMAIN log :
            log[i].init_replaced = TransitiveSubst(log[i].constant.init, i)

\* C4: the returned token stream is exactly the fragments of the
\* declarations, in declaration order, and nothing else.
C4_OutputIsFragments ==
    pc = "done" =>
        output = Flatten([i \in 1..Len(log) |-> Fragment(log[i].constant, log[i].init_replaced)])

\* C10 as stated: an entry of the dictionary is never removed and never
\* changed by a later step.
C10_NeverOverwritten ==
    [][\A n \in DOMAIN dictionary :
          n \in DOMAIN dictionary' /\ dictionary'[n] = dictionary[n]]_vars

\* C10 amended: an entry is never removed, and it changes only when a
\* declaration of the same name is mapped, which replaces it by that
\* declaration's parenthesized initializer.
C10_OverwrittenOnlyByRedeclaration ==
    [][\A n \in DOMAIN dictionary :
          /\ n \in DOMAIN dictionary'
          /\ dictionary'[n] # dictionary[n] =>
                /\ constants # <<>>
                /\ Head(constants).const_name = n
                /\ dictionary'[n] = << Group("(", Head(constants).init) >>]_vars

\* A name declared twice with different initializers has been mapped twice
C10_Witness ==
    /\ Len(log) >= 2
    /\ log[1].constant.const_name = log[2].constant.const_name
    /\ log[1].constant.init # log[2].constant.init
    /\ dictionary[log[2].constant.const_name] = << Group("(", log[2].constant.init) >>

RECURSIVE MathSum(_, _, _)
RECURSIVE MathProduct(_, _, _)
\* The value of an expression at position i of the list, every name bound
\* to the value of the last constant declared under it before i
MathOperand(t, i) ==
    CASE t.kind = "Literal" -> [ok |-> TRUE, val |-> t.num]
      [] t.kind = "Group"   -> MathSum(SplitAt(t.stream, "+", <<>>), Len(SplitAt(t.stream, "+", <<>>)), i)
      [] OTHER              ->
            IF t.text \in EarlierNames(i)
            THEN LET j == LastBefore(i, t.text)
                     e == log[j].constant.init
                 IN  MathSum(SplitAt(e, "+", <<>>), Len(SplitAt(e, "+", <<>>)), j)
            ELSE Failed

MathProduct(factors, n, i) ==
    IF n = 1 THEN MathOperand(factors[1][1], i)
    ELSE LET l == MathProduct(factors, n - 1, i)
             r == MathOperand(factors[n][1], i)
         IN  IF l.ok /\ r.ok THEN [ok |-> TRUE, val |-> l.val * r.val] ELSE Failed

MathSum(terms, n, i) ==
    LET term(k) == MathProduct(SplitAt(terms[k], "*", <<>>), Len(SplitAt(terms[k], "*", <<>>)), i)
    IN  IF n = 1 THEN term(1)
        ELSE LET l == MathSum(terms, n - 1, i)
                 r == term(n)
             IN  IF l.ok /\ r.ok THEN [ok |-> TRUE, val |-> l.val + r.val] ELSE Failed

\* The value the i-th declaration denotes
Denoted(i) ==
    LET e == log[i].constant.init
    IN  MathSum(SplitAt(e, "+", <<>>), Len(SplitAt(e, "+", <<>>)), i)

\* The value the emitted instance holds in the field of the v-th variant
Held(i, v) == HostInit(get_init(log[i].constant.types[v], log[i].init_replaced))

\* The initializer of the i-th constant names an earlier constant as an operand
References(i) == \E t \in Range(log[i].constant.init) : IsRef(t, EarlierNames(i))

\* C2: in a list of distinctly named constants, a constant whose initializer
\* has earlier constants as operands holds, in every variant whose type has
\* room for it, the value of its initializer with each name bound to the
\* earlier constant's value.
C2_ReferenceValue ==
    \A i \in DOMAIN log :
        (DistinctNames /\ References(i) /\ Denoted(i).ok) =>
            \A v \in DOMAIN log[i].constant.types :
                InRange(Denoted(i).val, PrimOf(log[i].constant.types[v].token)) =>
                    Held(i, v) = Denoted(i)

\* C5: no variant of an emitted instance holds a value other than the one its
\* declaration denotes: where the value is out of the variant type's range,
\* or zero for a non-zero type, compilation fails.
C5_NoSilentCoercion ==
    \A i \in DOMAIN log :
        \A v \in DOMAIN log[i].constant.types :
            Held(i, v).ok =>
                /\ Denoted(i).ok => Held(i, v).val = Denoted(i).val
                /\ InRange(Held(i, v).val, PrimOf(log[i].constant.types[v].token))
                /\ log[i].constant.types[v].init_wrapper = "nz_wrapper" => Held(i, v).val # 0

\* C3 as stated: the i-th declaration is rewritten with a dictionary of
\* exactly the names declared before it, and a reference to its own name, to
\* a name declared later or to an undeclared name is kept as an identifier.
C3_OwnLaterUndeclaredKept ==
    \A i \in DOMAIN log :
        /\ DOMAIN log[i].dictionary = EarlierNames(i)
        /\ \A p \in DOMAIN log[i].constant.init :
              LET t == log[i].constant.init[p]
              IN  (/\ t.kind = "Ident"
                   /\ \/ t.text = log[i].constant.const_name
                      \/ t.text \in LaterNames(i)
                      \/ t.text \notin EarlierNames(i)) => Kept(i, p)

\* C3 amended: the i-th declaration is rewritten with a dictionary of exactly
\* the names declared before it, each mapped to the parenthesized initializer
\* of its last earlier declaration, and a reference to a name that no earlier
\* declaration bears is kept as an identifier.
C3_OnlyEarlierNamesSubstituted ==
    \A i \in DOMAIN log :
        /\ DOMAIN log[i].dictionary = EarlierNames(i)
        /\ \A n \in EarlierNames(i) :
              log[i].dictionary[n] = << Group("(", log[LastBefore(i, n)].constant.init) >>
        /\ \A p \in DOMAIN log[i].constant.init :
              LET t == log[i].constant.init[p]
              IN  (t.kind = "Ident" /\ t.text \notin EarlierNames(i)) => Kept(i, p)

\* A constant mapped after another one kept a reference to its own name, and
\* a constant kept a reference to a name declared only after it
C3_Witness ==
    /\ \E i \in DOMAIN log : \E p \in DOMAIN log[i].constant.init :
          /\ i > 1
          /\ IsRef(log[i].constant.init[p], {log[i].constant.const_name})
          /\ log[i].constant.const_name \notin EarlierNames(i)
          /\ Kept(i, p)
    /\ \E i \in DOMAIN log : \E p \in DOMAIN log[i].constant.init :
          /\ IsRef(log[i].constant.init[p], LaterNames(i) \ EarlierNames(i))
          /\ log[i].constant.init[p].text # log[i].constant.const_name
          /\ Kept(i, p)

\* The declarations of the input
Parts == SplitTerminated(input, <<>>)

HasGrammarError ==
    \E tags \in TagLists : \E p \in DOMAIN Parts : Parts[p] \in GrammarErrors(tags)

\* C6: when a declaration of the list misses the grammar, the expansion ends
\* in the syntax error: nothing is mapped, nothing is emitted, the dictionary
\* stays empty.
C6_GrammarErrorAborts ==
    HasGrammarError =>
        /\ pc \in {"start", "error"}
        /\ dictionary = EmptyDic
        /\ log = <<>>
        /\ collected = <<>>
        /\ output = IF pc = "error" THEN CompileError ELSE <<>>

\* The expansion of a list whose second declaration misses the grammar,
\* after a first one that follows it, has ended
C6_Witness ==
    /\ pc = "error"
    /\ Len(Parts) >= 2
    /\ \E tags \in TagLists : Parts[1] \in WellFormed(tags) /\ Parts[2] \in GrammarErrors(tags)

\* C7: a list of declarations that follow the grammar, some of them
\* introduced with `static`, is accepted.
C7_StaticAccepted ==
    (\E tags \in TagLists :
        /\ \A p \in DOMAIN Parts : Parts[p] \in WellFormed(tags) \cup StaticDecls(tags)
        /\ \E p \in DOMAIN Parts : Parts[p] \in StaticDecls(tags))
    => pc # "error"

IsNzTag(t) == Len(t) = 3 /\ t[1] = "nz_" /\ t[2] \in {"i", "u"} /\ t[3] \in Widths

\* C8: a tag nz_<i|u><width> resolves to the non-zero wrapper and the NonZero
\* type of that signedness and width; any other tag resolves to the cast and
\* to the tag itself as the type.
C8_Resolution ==
    variant # NoVariant =>
        /\ variant.name = name
        /\ IF IsNzTag(name)
           THEN /\ variant.init_wrapper = "nz_wrapper"
                /\ variant.token = StdNum(<<"NonZero", (IF name[2] = "i" THEN "I" ELSE "U"), name[3]>>)
           ELSE /\ variant.init_wrapper = "null_wrapper"
                /\ variant.token = << Ident(name) >>

\* A non-zero shorthand has been resolved
C8_Witness == variant.init_wrapper = "nz_wrapper" /\ name = <<"nz_", "u", "16">>

====
